---- MODULE Spec2Model ----
(***************************************************************************)
(* Model of the Fitness Planner component (src/src/App.js).                *)
(*                                                                         *)
(* The component holds three pieces of React state: blocks (the catalog),  *)
(* graphData (the aggregate records behind the bar chart) and log (the     *)
(* list of "workout added" entries).  Every event handler runs to          *)
(* completion; the state updaters it queues are applied in the order they  *)
(* were queued, each to the result of the one before, and the component    *)
(* re-renders before the next event.  A handler reads `log` and `blocks`   *)
(* from the render that created it (its closure), and an updater receives  *)
(* the pending state as its argument.                                      *)
(***************************************************************************)
EXTENDS Integers, Sequences, FiniteSets, TLC

VARIABLES
    blocks,     \* useState(initialBlocks): the catalog
    graphData,  \* useState([]): aggregate records {id, content, km, count}
    log,        \* useState([]): log entries {id, content, km}
    now,        \* the reading Date.now() returns
    crashed,    \* an updater threw: React unmounts the component tree
    born,       \* history: born[i] is the ordinal of the add event that made log[i]
    adds,       \* history: number of add events so far
    last,       \* history: the event handled last, [op, arg, dest, at]: at is
                \* the clock reading it ran at, dest a drag's destination
    pre         \* history: log and graphData before the event handled last

vars == <<blocks, graphData, log, now, crashed, born, adds, last, pre>>

(***************************************************************************)
(* Bounds of the exploration.                                              *)
(***************************************************************************)
MaxAdds == 3    \* add events in one run
MaxNow == 2     \* distinct clock readings
MaxPick == 3    \* the gestures pick among the first MaxPick catalog items

(***************************************************************************)
(* The catalog.                                                            *)
(***************************************************************************)
initialBlocks ==
    << [id |-> "1", content |-> "Warm-up",      km |-> 2],
       [id |-> "2", content |-> "Active",       km |-> 5],
       [id |-> "3", content |-> "Cool-down",    km |-> 3],
       [id |-> "4", content |-> "Step Repeats", km |-> 4],
       [id |-> "5", content |-> "Ramp Up",      km |-> 6],
       [id |-> "6", content |-> "Ramp Down",    km |-> 4] >>

Pickable == 1..(IF MaxPick < Len(initialBlocks) THEN MaxPick ELSE Len(initialBlocks))

(***************************************************************************)
(* Array helpers, as the JavaScript built-ins compute them.                *)
(***************************************************************************)
\* Array.prototype.find on entry.id === logId: the index of the FIRST match,
\* 0 standing for undefined.
findEntry(l, logId) ==
    LET hits == {i \in 1..Len(l) : l[i].id = logId}
    IN  IF hits = {} THEN 0 ELSE CHOOSE i \in hits : \A j \in hits : i <= j

\* prev.find((b) => b.content === block.content), as a truth value
existingBlock(prev, block) ==
    \E k \in 1..Len(prev) : prev[k].content = block.content

(***************************************************************************)
(* addToGraph: the updater given to setGraphData.                          *)
(***************************************************************************)
\* faulty variant: the record is appended without looking for an existing one
addToGraphAppendOnly(prev, block) ==
    Append(prev, [id |-> block.id, content |-> block.content,
                  km |-> block.km, count |-> 1])

addToGraphUpdater(prev, block) ==
    IF existingBlock(prev, block)
    THEN [k \in 1..Len(prev) |->
            IF prev[k].content = block.content
            THEN [prev[k] EXCEPT !.count = @ + 1]
            ELSE prev[k]]
    ELSE Append(prev, [id |-> block.id, content |-> block.content,
                       km |-> block.km, count |-> 1])

(***************************************************************************)
(* addToLog: the entry, whose id is the clock reading, and the updater.    *)
(***************************************************************************)
logEntry(block, clock) ==
    [id |-> clock, content |-> block.content, km |-> block.km]

\* faulty variant: the entry is put at the head of the log
addToLogPrepend(prevLog, entry) == <<entry>> \o prevLog

addToLogUpdater(prevLog, entry) == Append(prevLog, entry)

(***************************************************************************)
(* deleteLogEntry: the two updaters.  The graph updater looks the entry up *)
(* in closureLog, the log of the render that created the handler, not in   *)
(* the state it is given.                                                  *)
(***************************************************************************)
deleteLogUpdater(prevLog, logId) ==
    SelectSeq(prevLog, LAMBDA entry : entry.id # logId)

\* log.find(...) is undefined and `.content` is read from it: a TypeError.
\* The map callback only runs when prevGraph has an element.
deleteGraphThrows(prevGraph, closureLog, logId) ==
    Len(prevGraph) > 0 /\ findEntry(closureLog, logId) = 0

\* faulty variant: a record decremented to 0 is kept
deleteGraphKeepZero(prevGraph, closureLog, logId) ==
    IF Len(prevGraph) = 0 THEN <<>>
    ELSE LET name == closureLog[findEntry(closureLog, logId)].content
         IN  [k \in 1..Len(prevGraph) |->
                IF prevGraph[k].content = name
                THEN [prevGraph[k] EXCEPT !.count = IF @ > 1 THEN @ - 1 ELSE 0]
                ELSE prevGraph[k]]

deleteGraphUpdater(prevGraph, closureLog, logId) ==
    IF Len(prevGraph) = 0 THEN <<>>
    ELSE LET name == closureLog[findEntry(closureLog, logId)].content
             mapped == [k \in 1..Len(prevGraph) |->
                          IF prevGraph[k].content = name
                          THEN [prevGraph[k] EXCEPT
                                  !.count = IF @ > 1 THEN @ - 1 ELSE 0]
                          ELSE prevGraph[k]]
         IN  SelectSeq(mapped, LAMBDA block : block.count > 0)

\* history: the ordinals of the entries deleteLogUpdater keeps
RECURSIVE keepBorn(_, _, _)
keepBorn(b, l, logId) ==
    IF l = <<>> THEN <<>>
    ELSE (IF Head(l).id # logId THEN <<Head(b)>> ELSE <<>>)
         \o keepBorn(Tail(b), Tail(l), logId)

(***************************************************************************)
(* resetAll: the two values given to setLog and setGraphData.              *)
(***************************************************************************)
\* setLog([]), as a function of the pending value it replaces
resetLog(prevLog) == <<>>

\* faulty variant: the aggregate records are not cleared
resetGraphKept(prevGraph) == prevGraph

\* setGraphData([]), as a function of the pending value it replaces
resetGraph(prevGraph) == <<>>

(* The render's projections of graphData.                                  *)
(***************************************************************************)
\* `hsl(${index * 60}, 50%, 60%)` for the 0-based array index, as its three
\* numbers
hsl(index) == [h |-> index * 60, s |-> 50, l |-> 60]

\* faulty variant: the bar's color is computed from the record's count
chartDataColorByCount(g) ==
    [labels          |-> [k \in 1..Len(g) |-> g[k].content],
     data            |-> [k \in 1..Len(g) |-> g[k].count],
     backgroundColor |-> [k \in 1..Len(g) |-> hsl(g[k].count)]]

\* chartData: labels, datasets[0].data and datasets[0].backgroundColor
chartData(g) ==
    [labels          |-> [k \in 1..Len(g) |-> g[k].content],
     data            |-> [k \in 1..Len(g) |-> g[k].count],
     backgroundColor |-> [k \in 1..Len(g) |-> hsl(k - 1)]]

\* the graph section: the "No workouts added yet." paragraph or the Bar chart
graphSection(g) ==
    IF Len(g) = 0 THEN [shows |-> "p", data |-> <<>>]
    ELSE [shows |-> "Bar", data |-> chartData(g)]

(***************************************************************************)
(* Initial state: the state after the first render.                        *)
(***************************************************************************)
Init ==
    /\ blocks = initialBlocks
    /\ graphData = <<>>
    /\ log = <<>>
    /\ now = 1
    /\ crashed = FALSE
    /\ born = <<>>
    /\ adds = 0
    /\ last = [op |-> "init", arg |-> 0, dest |-> 0, at |-> 1]
    /\ pre = [log |-> <<>>, graphData |-> <<>>]

RememberAt(op, arg, dest) ==
    /\ last' = [op |-> op, arg |-> arg, dest |-> dest, at |-> now]
    /\ pre' = [log |-> log, graphData |-> graphData]

Remember(op, arg) == RememberAt(op, arg, 0)

\* the component's state, as a handler's updaters see it
State == [blocks |-> blocks, graphData |-> graphData, log |-> log]

\* addToGraph(block): setGraphData(updater), then addToLog(block), which reads
\* the clock
addToGraph(st, block, clock) ==
    [blocks    |-> st.blocks,
     graphData |-> addToGraphUpdater(st.graphData, block),
     log       |-> addToLogUpdater(st.log, logEntry(block, clock))]

\* faulty variant: the catalog item is moved to the drop position, as a
\* sortable list would do
handleDragEndReorder(st, result, clock) ==
    IF result.destination = 0 THEN st
    ELSE LET moved == st.blocks[result.source]
             rest == SubSeq(st.blocks, 1, result.source - 1)
                     \o SubSeq(st.blocks, result.source + 1, Len(st.blocks))
             placed == SubSeq(rest, 1, result.destination - 1) \o <<moved>>
                       \o SubSeq(rest, result.destination, Len(rest))
         IN  [addToGraph(st, moved, clock) EXCEPT !.blocks = placed]

\* faulty variant: the block at the drop position is added
handleDragEndAtDestination(st, result, clock) ==
    IF result.destination = 0 THEN st
    ELSE addToGraph(st, st.blocks[result.destination], clock)

\* faulty variant: no early return for a drag without destination
handleDragEndNoReturn(st, result, clock) ==
    addToGraph(st, st.blocks[result.source], clock)

\* handleDragEnd(result): result.source is the dragged item's index,
\* result.destination the drop position, 0 standing for null (dropped outside)
handleDragEnd(st, result, clock) ==
    IF result.destination = 0 THEN st
    ELSE addToGraph(st, st.blocks[result.source], clock)

\* The clock advances between two events (it need not).
Tick ==
    /\ ~crashed
    /\ now < MaxNow
    /\ now' = now + 1
    /\ UNCHANGED <<blocks, graphData, log, crashed, born, adds, last, pre>>

\* addToGraph(block): setGraphData(updater), then addToLog(block)
AddWorkout(block, op, arg) ==
    /\ ~crashed
    /\ adds < MaxAdds
    /\ LET st == addToGraph(State, block, now)
       IN  graphData' = st.graphData /\ log' = st.log
    /\ adds' = adds + 1
    /\ born' = Append(born, adds + 1)
    /\ Remember(op, arg)
    /\ UNCHANGED <<blocks, now, crashed>>

\* onClick of the catalog item at index i
Click(i) == AddWorkout(blocks[i], "click", i)

\* onDragEnd of the catalog list: handleDragEnd(result)
HandleDragEnd(i, d, op) ==
    /\ ~crashed
    /\ d # 0 => adds < MaxAdds
    /\ LET st == handleDragEnd(State, [source |-> i, destination |-> d], now)
           added == Len(st.log) > Len(log)
       IN  /\ blocks' = st.blocks
           /\ graphData' = st.graphData
           /\ log' = st.log
           /\ adds' = IF added THEN adds + 1 ELSE adds
           /\ born' = IF added THEN Append(born, adds + 1) ELSE born
    /\ RememberAt(op, i, d)
    /\ UNCHANGED <<now, crashed>>

\* a drag of catalog item i dropped at position d of the list
DragDrop(i, d) == HandleDragEnd(i, d, "drop")

\* a drag of catalog item i dropped outside the list
DragCancel(i) == HandleDragEnd(i, 0, "cancel")

\* deleteLogEntry(logId) run by a handler whose closure holds closureLog, on the
\* pending state st = [log, graphData, born, threw]: setLog(updater), then
\* setGraphData(updater)
deleteLogEntry(st, closureLog, logId) ==
    [log       |-> deleteLogUpdater(st.log, logId),
     born      |-> keepBorn(st.born, st.log, logId),
     graphData |-> IF deleteGraphThrows(st.graphData, closureLog, logId)
                   THEN st.graphData
                   ELSE deleteGraphUpdater(st.graphData, closureLog, logId),
     threw     |-> st.threw \/ deleteGraphThrows(st.graphData, closureLog, logId)]

Pending == [log |-> log, born |-> born, graphData |-> graphData, threw |-> FALSE]

\* The render that follows the handlers: the pending state is committed, or the
\* updater's exception unmounts the tree and the last committed state stays.
Commit(st) ==
    IF st.threw
    THEN crashed' = TRUE /\ UNCHANGED <<log, born, graphData>>
    ELSE /\ log' = st.log
         /\ born' = st.born
         /\ graphData' = st.graphData
         /\ UNCHANGED crashed

\* onClick of the Delete button of log row i: deleteLogEntry(entry.id), with the
\* rendered log as the handler's closure
DeleteClick(i) ==
    /\ ~crashed
    /\ i \in 1..Len(log)
    /\ Commit(deleteLogEntry(Pending, log, log[i].id))
    /\ Remember("delete", i)
    /\ UNCHANGED <<blocks, now, adds>>

\* The same Delete button clicked twice before the component re-renders (two
\* click events dispatched in one task): both handlers belong to the same
\* render and hold the same log; their updaters are applied in order.
DoubleDeleteClick(i) ==
    /\ ~crashed
    /\ i \in 1..Len(log)
    /\ Commit(deleteLogEntry(deleteLogEntry(Pending, log, log[i].id),
                             log, log[i].id))
    /\ Remember("delete2", i)
    /\ UNCHANGED <<blocks, now, adds>>

\* deleteLogEntry(logId) called with a token that no log entry carries
Tokens == 0..MaxNow

DeleteCall(logId) ==
    /\ ~crashed
    /\ findEntry(log, logId) = 0
    /\ Commit(deleteLogEntry(Pending, log, logId))
    /\ Remember("deleteAbsent", logId)
    /\ UNCHANGED <<blocks, now, adds>>

\* onClick of the Reset button
ResetClick ==
    /\ ~crashed
    /\ log' = resetLog(log)
    /\ graphData' = resetGraph(graphData)
    /\ born' = <<>>
    /\ Remember("reset", 0)
    /\ UNCHANGED <<blocks, now, crashed, adds>>

Next ==
    \/ Tick
    \/ \E i \in Pickable : Click(i)
    \/ \E i, d \in Pickable : DragDrop(i, d)
    \/ \E i \in Pickable : DragCancel(i)
    \/ \E i \in 1..MaxAdds : DeleteClick(i)
    \/ ResetClick

Spec == Init /\ [][Next]_vars

\* The events of Next, and click events that arrive in pairs
NextBatch == Next \/ \E i \in 1..MaxAdds : DoubleDeleteClick(i)

SpecBatch == Init /\ [][NextBatch]_vars

\* The events of Next, and direct calls of deleteLogEntry
NextCall == Next \/ \E logId \in Tokens : DeleteCall(logId)

SpecCall == Init /\ [][NextCall]_vars

(***************************************************************************)
(* Vocabulary of the properties.                                           *)
(***************************************************************************)
IsAdd == last.op \in {"click", "drop"}

\* number of entries of log l whose block name is name
EntriesNamed(l, name) == Cardinality({i \in 1..Len(l) : l[i].content = name})

\* the count the aggregate set g shows for name: 0 when it has no record
CountOf(g, name) ==
    IF \E k \in 1..Len(g) : g[k].content = name
    THEN g[CHOOSE k \in 1..Len(g) : g[k].content = name].count
    ELSE 0

\* the records of g for the names other than name, in order
Others(g, name) == SelectSeq(g, LAMBDA r : r.content # name)

\* sequence l without its element at position i
RemoveAt(l, i) == SubSeq(l, 1, i - 1) \o SubSeq(l, i + 1, Len(l))

(***************************************************************************)
(* C1: in every reachable state every aggregate record's count is the      *)
(* number of log entries with its block name, and no record has count 0.   *)
(***************************************************************************)
C1_CountsMatchLog ==
    \A k \in 1..Len(graphData) :
        /\ graphData[k].count = EntriesNamed(log, graphData[k].content)
        /\ graphData[k].count # 0

(***************************************************************************)
(* C2: the log never holds two entries with the same identity token, also  *)
(* when the clock has not advanced between two adds.                       *)
(***************************************************************************)
C2_TokensUnique ==
    \A i, j \in 1..Len(log) : i # j => log[i].id # log[j].id

(***************************************************************************)
(* C3: deleteLogEntry called with a token that no log entry carries does   *)
(* not throw and leaves the log and the aggregate set unchanged.           *)
(***************************************************************************)
C3_AbsentTokenIsNoOp ==
    last.op = "deleteAbsent" =>
        /\ ~crashed
        /\ log = pre.log
        /\ graphData = pre.graphData

(***************************************************************************)
(* C4: an add of block b increments the count of b's record by exactly 1   *)
(* when there is one, and otherwise creates a record with count 1 and b's  *)
(* distance; every record of another block keeps its count and distance.   *)
(***************************************************************************)
C4_AddUpdatesOneRecord ==
    IsAdd =>
        LET b == blocks[last.arg]
            old == pre.graphData
        IN  /\ Others(graphData, b.content) = Others(old, b.content)
            /\ Cardinality({k \in 1..Len(graphData) :
                              graphData[k].content = b.content}) = 1
            /\ IF \E k \in 1..Len(old) : old[k].content = b.content
               THEN /\ Len(graphData) = Len(old)
                    /\ \A k \in 1..Len(old) :
                          old[k].content = b.content =>
                              /\ graphData[k].content = b.content
                              /\ graphData[k].count = old[k].count + 1
                              /\ graphData[k].km = old[k].km
               ELSE /\ Len(graphData) = Len(old) + 1
                    /\ graphData[Len(graphData)].content = b.content
                    /\ graphData[Len(graphData)].count = 1
                    /\ graphData[Len(graphData)].km = b.km

\* an add of a block that already had a record, beside the record of another block
C4_Witness ==
    /\ IsAdd
    /\ CountOf(pre.graphData, blocks[last.arg].content) >= 1
    /\ Len(Others(graphData, blocks[last.arg].content)) >= 1
    /\ log # pre.log

(***************************************************************************)
(* C5: an add of block b appends exactly one entry with b's name and       *)
(* distance at the tail of the log and leaves the entries before it as     *)
(* they were; so the log lists its entries in the order of their adds.     *)
(***************************************************************************)
C5_AddAppendsAtTail ==
    /\ IsAdd =>
          /\ Len(log) = Len(pre.log) + 1
          /\ SubSeq(log, 1, Len(pre.log)) = pre.log
          /\ log[Len(log)].content = blocks[last.arg].content
          /\ log[Len(log)].km = blocks[last.arg].km
          /\ born[Len(log)] = adds
    /\ Len(born) = Len(log)
    /\ \A i, j \in 1..Len(born) : i < j => born[i] < born[j]

\* an add onto a log whose first entry is not the first add: an earlier entry
\* was deleted before it
C5_Witness ==
    /\ IsAdd
    /\ Len(log) >= 2
    /\ born[1] > 1
    /\ log # pre.log

(***************************************************************************)
(* C6: deleting a present log entry decrements by exactly 1 the count of   *)
(* the record named as the deleted entry, removes the record when the      *)
(* result is 0, and leaves every other record unchanged.                   *)
(***************************************************************************)
C6_DeleteDecrementsOnce ==
    last.op = "delete" =>
        LET name == pre.log[last.arg].content
        IN  /\ CountOf(graphData, name) = CountOf(pre.graphData, name) - 1
            /\ \A k \in 1..Len(graphData) : graphData[k].count # 0
            /\ Others(graphData, name) = Others(pre.graphData, name)

(***************************************************************************)
(* C7: deleting a log entry by its token removes exactly that entry: the   *)
(* log is one shorter and the other entries keep their order.              *)
(***************************************************************************)
C7_DeleteRemovesOneEntry ==
    last.op = "delete" =>
        /\ Len(log) = Len(pre.log) - 1
        /\ log = RemoveAt(pre.log, last.arg)

(***************************************************************************)
(* C8: two delete clicks for the same token from the same rendered view    *)
(* have the final effect of a single delete: the entry is removed once and *)
(* the count of its record is decremented once.  Stated for a log whose    *)
(* tokens are distinct, so that the token names one entry.                 *)
(***************************************************************************)
C8_DoubleDeleteIsSingleDelete ==
    (/\ last.op = "delete2"
     /\ \A i, j \in 1..Len(pre.log) : i # j => pre.log[i].id # pre.log[j].id)
    =>  LET logId == pre.log[last.arg].id
            name == pre.log[last.arg].content
        IN  /\ ~crashed
            /\ log = deleteLogUpdater(pre.log, logId)
            /\ graphData = deleteGraphUpdater(pre.graphData, pre.log, logId)
            /\ CountOf(graphData, name) = CountOf(pre.graphData, name) - 1

(***************************************************************************)
(* C9: after reset the log and the aggregate set are both empty.           *)
(***************************************************************************)
C9_ResetClearsBoth ==
    last.op = "reset" => (log = <<>> /\ graphData = <<>> /\ ~crashed)

\* a reset of a state in which both were non-empty
C9_Witness ==
    /\ last.op = "reset"
    /\ Len(pre.log) >= 2
    /\ Len(pre.graphData) >= 2
    /\ log = <<>>

(***************************************************************************)
(* C10: deleting the log entries one at a time until none is left ends, as *)
(* a reset does, with the log and the aggregate set both empty.            *)
(***************************************************************************)
C10_DeleteAllEndsEmpty ==
    (last.op = "delete" /\ log = <<>>) => graphData = <<>>

(***************************************************************************)
(* C11: no sequence of add, drag (dropped or cancelled), delete or reset   *)
(* events changes the catalog: it keeps its six initial blocks, each with  *)
(* its id, name and distance, in the initial order.                        *)
(***************************************************************************)
C11_CatalogFixed ==
    /\ Len(blocks) = 6
    /\ \A k \in 1..Len(blocks) :
          /\ blocks[k].id = initialBlocks[k].id
          /\ blocks[k].content = initialBlocks[k].content
          /\ blocks[k].km = initialBlocks[k].km

\* after a delete, a drag dropped at another position than it started from
C11_Witness ==
    /\ last.op = "drop"
    /\ last.dest # last.arg
    /\ Len(log) >= 2
    /\ born[1] > 1
    /\ blocks = initialBlocks

(***************************************************************************)
(* C12: a drag of the catalog item at index i that ends with a destination *)
(* produces the log and the aggregate set that a click on the item at      *)
(* index i produces, whatever the drop position.                           *)
(***************************************************************************)
C12_DropIsClick ==
    last.op = "drop" =>
        LET clicked == addToGraph([blocks |-> initialBlocks,
                                   graphData |-> pre.graphData,
                                   log |-> pre.log],
                                  initialBlocks[last.arg], last.at)
        IN  /\ log = clicked.log
            /\ graphData = clicked.graphData

\* a drop at a position other than the source's, onto a non-empty state
C12_Witness ==
    /\ last.op = "drop"
    /\ last.dest # last.arg
    /\ Len(pre.log) >= 1
    /\ Len(log) = Len(pre.log) + 1
    /\ log[Len(log)].content = initialBlocks[last.arg].content

(***************************************************************************)
(* C13: the chart series is a parallel triple: labels, counts and colors   *)
(* are as long as the aggregate set, position i holds the name and count   *)
(* of the i-th record and a color fixed by i; and the records stay in the  *)
(* order they were created in: an event keeps the surviving records in     *)
(* their relative order and puts a new record last.                        *)
(***************************************************************************)
Names(g) == [k \in 1..Len(g) |-> g[k].content]

C13_ChartSeriesParallel ==
    LET c == chartData(graphData)
        kept == SelectSeq(Names(pre.graphData),
                          LAMBDA n : \E k \in 1..Len(graphData) :
                                        graphData[k].content = n)
    IN  /\ Len(c.labels) = Len(graphData)
        /\ Len(c.data) = Len(graphData)
        /\ Len(c.backgroundColor) = Len(graphData)
        /\ \A i \in 1..Len(graphData) :
              /\ c.labels[i] = graphData[i].content
              /\ c.data[i] = graphData[i].count
              /\ c.backgroundColor[i] = [h |-> 60 * (i - 1), s |-> 50, l |-> 60]
        /\ \/ Names(graphData) = kept
           \/ /\ IsAdd
              /\ ~existingBlock(pre.graphData, initialBlocks[last.arg])
              /\ Names(graphData) =
                    Append(Names(pre.graphData), initialBlocks[last.arg].content)
        /\ (IsAdd \/ (last.op = "delete" /\ Len(graphData) = Len(pre.graphData)))
              => SubSeq(Names(graphData), 1, Len(pre.graphData))
                    = Names(pre.graphData)

\* a delete that decrements the first of two records to a count of 1: both
\* keep their positions
C13_Witness ==
    /\ last.op = "delete"
    /\ Len(graphData) >= 2
    /\ Names(graphData) = Names(pre.graphData)
    /\ graphData[1].count = pre.graphData[1].count - 1

(***************************************************************************)
(* C14: the graph section shows the no-data paragraph exactly when the     *)
(* aggregate set is empty, and every count of a bar chart it shows is at   *)
(* least 1.                                                                *)
(***************************************************************************)
C14_NoDataOrPositiveBars ==
    LET section == graphSection(graphData)
    IN  /\ section.shows \in {"p", "Bar"}
        /\ section.shows = "p" <=> graphData = <<>>
        /\ section.shows = "Bar" =>
              /\ Len(section.data.data) >= 1
              /\ \A i \in 1..Len(section.data.data) : section.data.data[i] >= 1

\* a delete that removes one record of a chart that keeps another
C14_Witness ==
    /\ last.op = "delete"
    /\ Len(pre.graphData) = Len(graphData) + 1
    /\ graphSection(graphData).shows = "Bar"

(***************************************************************************)
(* C15: a drag that ends without a destination changes nothing: the log,   *)
(* the aggregate set and the catalog are as before.                        *)
(***************************************************************************)
C15_CancelChangesNothing ==
    last.op = "cancel" =>
        /\ log = pre.log
        /\ graphData = pre.graphData
        /\ blocks = initialBlocks

\* a cancelled drag in a state with entries and records
C15_Witness ==
    /\ last.op = "cancel"
    /\ Len(pre.log) >= 2
    /\ Len(pre.graphData) >= 2
    /\ last.dest = 0

(***************************************************************************)
(* C16: every block name in the log has exactly one aggregate record, no   *)
(* two records share a name, the counts add up to the log's length, and    *)
(* the log is empty exactly when the aggregate set is.                     *)
(***************************************************************************)
RECURSIVE SumCounts(_)
SumCounts(g) == IF g = <<>> THEN 0 ELSE Head(g).count + SumCounts(Tail(g))

C16_OneRecordPerLoggedName ==
    /\ \A i \in 1..Len(log) :
          Cardinality({k \in 1..Len(graphData) :
                          graphData[k].content = log[i].content}) = 1
    /\ \A j, k \in 1..Len(graphData) :
          graphData[j].content = graphData[k].content => j = k
    /\ SumCounts(graphData) = Len(log)
    /\ log = <<>> <=> graphData = <<>>

(***************************************************************************)
(* C17: an add followed by the delete of the entry that add created gives  *)
(* back the log and the aggregate set from before the add: same entries    *)
(* and records, same counts, same order.                                   *)
(***************************************************************************)
C17_AddThenDeleteRestores ==
    [][(/\ IsAdd
        /\ log # <<>>
        /\ last'.op = "delete"
        /\ last'.arg = Len(log)
        /\ pre' = [log |-> log, graphData |-> graphData])
       => (log' = pre.log /\ graphData' = pre.graphData)]_vars
====
